---------------------------- MODULE Spec2Model ----------------------------
(***************************************************************************)
(* State-machine model of the saver6775 driver (src/dkms/src/saver6775.c): *)
(* the Super-I/O port protocol, chip identification, probe, the sysfs      *)
(* "enable" attribute (show/store) and the suspend/resume callbacks.       *)
(*                                                                         *)
(* The chip is modelled at the level of the two ports the driver touches:  *)
(* the index port (ioreg, offset 0) and the data port (ioreg + 1, offset   *)
(* 1).  Every port access and every call into the kernel that a claim      *)
(* talks about is appended to a trace, so that "how many", "in what order" *)
(* and "none at all" are facts of the state.                               *)
(***************************************************************************)
EXTENDS Integers, Sequences, FiniteSets, TLC

(***************************************************************************)
(* Program constants (#define lines of the source) and errno values.       *)
(***************************************************************************)
SIO_REG_LDSEL == 7
SIO_REG_DEVID == 32
SIO_REG_ENABLE == 48
SIO_REG_ADDR == 96
\* mutant: a mask that also ignores bit 3 of the ID (0xFFF0)
SIO_ID_MASK_loose == 65528 - 8
SIO_ID_MASK == 65528
SIO_NCT6791_ID == 51200
NCT6775_LD_HWM == 11
NCT6775_LD_GPIO_DATA == 8
NCT6775_REG_CR_GPIO1_DATA == 241
NCT6791_REG_HM_IO_SPACE_LOCK_ENABLE == 40
\* mutant: no alignment mask (0xFFFF)
IOREGION_ALIGNMENT_none == 65528 + 7
\* (~7) applied to a u16 value: only the low 16 bits of the mask matter
IOREGION_ALIGNMENT == 65528
IOREGION_OFFSET == 5
IOREGION_LENGTH == 2
NCT6775_REG_CONFIG == 64
MAXRETRIES == 5
\* register 0x2a read by probe, and the capability bit (1<<6)
CR2A == 42
\* the key bytes of superio_enter (0x87) and superio_exit (0xaa, 0x02)
SIO_UNLOCK_KEY == 135
SIO_LOCK_KEY == 170
SIO_EXIT_INDEX == 2
\* the legacy Super-I/O address scanned by hddsaver_init (0x2e)
SIOADDR == 46
\* data->bank = 0xff
BANK_UNKNOWN == 255
\* jiffies per second (one tick of the model clock is one second); the
\* freshness window is HZ + HZ / 2
HZ == 1
EBUSY == 16
ENODEV == 19
EINVAL == 22
ENOMEM == 12

(***************************************************************************)
(* Bounds of the model.                                                    *)
(***************************************************************************)
\* number of concurrent callers of the sysfs attribute
NThreads == 2
\* jiffies runs from 0 to MaxJiffies
MaxJiffies == 2

Threads == 1..NThreads

(***************************************************************************)
(* Bitwise operations on naturals, as C computes them on u8/u16/int.       *)
(***************************************************************************)
RECURSIVE BitAnd(_, _)
BitAnd(a, b) ==
    IF a = 0 \/ b = 0 THEN 0
    ELSE (a % 2) * (b % 2) + 2 * BitAnd(a \div 2, b \div 2)

RECURSIVE BitOr(_, _)
BitOr(a, b) ==
    IF a = 0 THEN b
    ELSE IF b = 0 THEN a
    ELSE (IF a % 2 = 1 \/ b % 2 = 1 THEN 1 ELSE 0) + 2 * BitOr(a \div 2, b \div 2)

RECURSIVE BitXor(_, _)
BitXor(a, b) ==
    IF a = 0 THEN b
    ELSE IF b = 0 THEN a
    ELSE ((a + b) % 2) + 2 * BitXor(a \div 2, b \div 2)

\* val & ~mask on a byte
BitClear(a, mask) == a - BitAnd(a, mask)

(***************************************************************************)
(* The chip behind the two ports.  A register is addressed by the index    *)
(* last written to the index port; indices below 0x30 are global, the      *)
(* others belong to the logical device selected in register 0x07.          *)
(***************************************************************************)
RegKey(ld, idx) == IF idx < 48 THEN idx ELSE ld * 256 + idx

KEY_LDSEL == RegKey(0, SIO_REG_LDSEL)
KEY_DEVID_HI == RegKey(0, SIO_REG_DEVID)
KEY_DEVID_LO == RegKey(0, SIO_REG_DEVID + 1)
KEY_CR28 == RegKey(0, NCT6791_REG_HM_IO_SPACE_LOCK_ENABLE)
KEY_CR2A == RegKey(0, CR2A)
KEY_HWM_ENABLE == RegKey(NCT6775_LD_HWM, SIO_REG_ENABLE)
KEY_HWM_ADDR_HI == RegKey(NCT6775_LD_HWM, SIO_REG_ADDR)
KEY_HWM_ADDR_LO == RegKey(NCT6775_LD_HWM, SIO_REG_ADDR + 1)
KEY_GPIO1_DATA == RegKey(NCT6775_LD_GPIO_DATA, NCT6775_REG_CR_GPIO1_DATA)

RegKeys ==
    { KEY_LDSEL, KEY_DEVID_HI, KEY_DEVID_LO, KEY_CR28, KEY_CR2A,
      KEY_HWM_ENABLE, KEY_HWM_ADDR_HI, KEY_HWM_ADDR_LO, KEY_GPIO1_DATA }

\* the register the data port currently addresses
CurKey(h) == RegKey(h.regs[KEY_LDSEL], h.index)

\* what a byte written to a port does to the chip
OutEffect(h, val, port) ==
    IF port = 0
    THEN IF h.cfg
         THEN IF val = SIO_LOCK_KEY THEN "lock" ELSE "index"
         ELSE IF val = SIO_UNLOCK_KEY THEN "key" ELSE "latch"
    ELSE IF h.cfg THEN "write" ELSE "ignored"

HwOut(h, val, port) ==
    LET eff == OutEffect(h, val, port) IN
    CASE eff = "key" ->
           IF h.keys = 1 THEN [h EXCEPT !.cfg = TRUE, !.keys = 0]
           ELSE [h EXCEPT !.keys = 1]
      [] eff = "lock" -> [h EXCEPT !.cfg = FALSE, !.keys = 0]
      [] eff = "index" -> [h EXCEPT !.index = val]
      \* outside configuration mode the index port still latches the byte
      [] eff = "latch" -> [h EXCEPT !.index = val, !.keys = 0]
      [] eff = "write" ->
           IF CurKey(h) \in RegKeys
           THEN [h EXCEPT !.regs[CurKey(h)] = val]
           ELSE h
      [] OTHER -> [h EXCEPT !.keys = 0]

\* the byte the data port returns
HwIn(h) ==
    IF h.cfg /\ CurKey(h) \in RegKeys THEN h.regs[CurKey(h)] ELSE 255

(***************************************************************************)
(* Trace events.  A machine m is the chip, the owner of the two-port       *)
(* region and the trace of the operation in progress.                      *)
(***************************************************************************)
Ev(k, port, val, eff, h) ==
    [k |-> k, port |-> port, val |-> val, eff |-> eff,
     reg |-> h.index, ld |-> h.regs[KEY_LDSEL]]

\* an event of a kernel call that is no port access
Call(k, ok) ==
    [k |-> k, port |-> 0, val |-> IF ok THEN 1 ELSE 0,
     eff |-> IF ok THEN "ok" ELSE "fail", reg |-> 0, ld |-> 0]

outb(m, val, port) ==
    [m EXCEPT !.hw = HwOut(m.hw, val, port),
              !.tr = Append(@, Ev("outb", port, val, OutEffect(m.hw, val, port), m.hw))]

\* the byte read, and the machine after the read
inb(m, port) ==
    [val |-> HwIn(m.hw),
     m |-> [m EXCEPT !.tr = Append(@, Ev("inb", port, HwIn(m.hw),
                                         IF m.hw.cfg THEN "read" ELSE "ignored", m.hw))]]

\* a local variable of a function: v is computed once and named in F
Let(v, F(_)) == CHOOSE r \in {F(x) : x \in {v}} : TRUE

\* I/O functions
superio_outb(m, reg, val) == outb(outb(m, reg, 0), val, 1)

\* .val is the value returned by superio_inb, .m the machine after it
superio_inb(m, reg) == inb(outb(m, reg, 0), 1)

superio_select(m, ld) == outb(outb(m, SIO_REG_LDSEL, 0), ld, 1)

\* mutant: the key bytes are written before the region is known to be ours
superio_enter_keysfirst(m) ==
    IF m.region # "free"
    THEN [m |-> [outb(outb(m, SIO_UNLOCK_KEY, 0), SIO_UNLOCK_KEY, 0)
                   EXCEPT !.tr = Append(@, Call("request_muxed_region", FALSE))],
          ret |-> 0 - EBUSY]
    ELSE [m |-> [outb(outb(m, SIO_UNLOCK_KEY, 0), SIO_UNLOCK_KEY, 0)
                   EXCEPT !.region = "driver",
                          !.tr = Append(@, Call("request_muxed_region", TRUE))],
          ret |-> 0]

\* mutant: the key bytes are written whoever holds the two ports
superio_enter_noregion(m) ==
    [m |-> outb(outb([m EXCEPT !.region = "driver",
                               !.tr = Append(@, Call("request_muxed_region", TRUE))],
                     SIO_UNLOCK_KEY, 0), SIO_UNLOCK_KEY, 0),
     ret |-> 0]

\* request_muxed_region fails when another owner holds the two ports
superio_enter(m) ==
    IF m.region # "free"
    THEN [m |-> [m EXCEPT !.tr = Append(@, Call("request_muxed_region", FALSE))],
          ret |-> 0 - EBUSY]
    ELSE [m |-> outb(outb([m EXCEPT !.region = "driver",
                                    !.tr = Append(@, Call("request_muxed_region", TRUE))],
                          SIO_UNLOCK_KEY, 0), SIO_UNLOCK_KEY, 0),
          ret |-> 0]

superio_exit(m) ==
    [outb(outb(outb(m, SIO_LOCK_KEY, 0), SIO_EXIT_INDEX, 0), SIO_EXIT_INDEX, 1)
       EXCEPT !.region = "free",
              !.tr = Append(@, Call("release_region", TRUE))]

\* mutant: the IO-space-lock bit is flipped whatever its value
nct6791_enable_io_mapping_flip(m) ==
    Let(superio_inb(m, NCT6791_REG_HM_IO_SPACE_LOCK_ENABLE), LAMBDA val :
    superio_outb(val.m, NCT6791_REG_HM_IO_SPACE_LOCK_ENABLE,
                 BitXor(val.val, 16)))

\* nct6791_enable_io_mapping
nct6791_enable_io_mapping(m) ==
    Let(superio_inb(m, NCT6791_REG_HM_IO_SPACE_LOCK_ENABLE), LAMBDA val :
    IF BitAnd(val.val, 16) # 0
    THEN superio_outb(val.m, NCT6791_REG_HM_IO_SPACE_LOCK_ENABLE,
                      BitClear(val.val, 16))
    ELSE val.m)

(***************************************************************************)
(* nct6775_find: result is the machine after the call, the return value    *)
(* and what it stored in sio_data.                                         *)
(***************************************************************************)
NoSioData == [kind |-> "unset", sioreg |-> 0]

\* the tail of nct6775_find once the base address is known to be non-zero
nct6775_find_enable(m, addr, sioaddr) ==
    Let(superio_inb(m, SIO_REG_ENABLE), LAMBDA en :
    Let(IF BitAnd(en.val, 1) = 0
        THEN superio_outb(en.m, SIO_REG_ENABLE, BitOr(en.val, 1))
        ELSE en.m, LAMBDA m7 :
    [m |-> superio_exit(nct6791_enable_io_mapping(m7)), ret |-> addr,
     sio_data |-> [kind |-> "nct6791", sioreg |-> sioaddr]]))

\* the part of nct6775_find after the device ID matched
nct6775_find_addr(m, sioaddr) ==
    Let(superio_inb(superio_select(m, NCT6775_LD_HWM), SIO_REG_ADDR), LAMBDA ahi :
    Let(superio_inb(ahi.m, SIO_REG_ADDR + 1), LAMBDA alo :
    Let(BitAnd(BitOr(ahi.val * 256, alo.val), IOREGION_ALIGNMENT), LAMBDA addr :
    IF addr = 0
    THEN [m |-> superio_exit(alo.m), ret |-> 0 - ENODEV,
          sio_data |-> [kind |-> "nct6791", sioreg |-> 0]]
    ELSE nct6775_find_enable(alo.m, addr, sioaddr))))

nct6775_find(m0, sioaddr) ==
    Let(superio_enter(m0), LAMBDA e :
    IF e.ret # 0
    THEN [m |-> e.m, ret |-> e.ret, sio_data |-> NoSioData]
    ELSE
    Let(superio_inb(e.m, SIO_REG_DEVID), LAMBDA hi :
    Let(superio_inb(hi.m, SIO_REG_DEVID + 1), LAMBDA lo :
    IF BitAnd(BitOr(hi.val * 256, lo.val), SIO_ID_MASK) # SIO_NCT6791_ID
    THEN [m |-> superio_exit(lo.m), ret |-> 0 - ENODEV, sio_data |-> NoSioData]
    ELSE nct6775_find_addr(lo.m, sioaddr))))

(***************************************************************************)
(* Device State (struct nct6775_data).  devm_kzalloc zeroes every field.   *)
(***************************************************************************)
NoData ==
    [alloc |-> FALSE, addr |-> 0, sioreg |-> 0, kind |-> "unset",
     REG_CONFIG |-> 0, valid |-> FALSE, last_updated |-> 0, bank |-> 0,
     in_num |-> 0, have_hddsaver |-> FALSE, hddsaver_status |-> FALSE,
     sio_reg_enable |-> 0]

\* dmi_get_system_info returns NULL when the board does not report the string
NULL == "(null)"

strcmp(a, b) == IF a = b THEN 0 ELSE 1

\* mutant: the loop runs while i <= MAXRETRIES
RECURSIVE ProbeRegionLoop_offbyone(_, _, _)
ProbeRegionLoop_offbyone(i, freeAt, tr) ==
    IF i <= MAXRETRIES
    THEN IF i + 1 >= freeAt
         THEN [region |-> TRUE,
               tr |-> Append(tr, Call("devm_request_region", TRUE))]
         ELSE ProbeRegionLoop_offbyone(i + 1, freeAt,
                  tr \o <<Call("devm_request_region", FALSE),
                          Call("usleep_range", TRUE)>>)
    ELSE [region |-> FALSE, tr |-> tr]

\* the retry loop of nct6775_probe: the region is held by another owner
\* until attempt number freeAt; i counts the attempts made so far
RECURSIVE ProbeRegionLoop(_, _, _)
ProbeRegionLoop(i, freeAt, tr) ==
    IF i < MAXRETRIES
    THEN IF i + 1 >= freeAt
         THEN [region |-> TRUE,
               tr |-> Append(tr, Call("devm_request_region", TRUE))]
         ELSE ProbeRegionLoop(i + 1, freeAt,
                  tr \o <<Call("devm_request_region", FALSE),
                          Call("usleep_range", TRUE)>>)
    ELSE [region |-> FALSE, tr |-> tr]

\* mutant: the capability bit is taken without the board allow-list
ProbeHaveHddsaver_nogate(kind, board_vendor, board_name, cr2a) ==
    kind = "nct6791" /\ BitAnd(cr2a, 64) # 0

\* the board allow-list and the capability bit of register 0x2a
ProbeHaveHddsaver(kind, board_vendor, board_name, cr2a) ==
    IF kind = "nct6791"
       /\ board_name # NULL /\ board_vendor # NULL
       /\ strcmp(board_vendor, "ASRock") = 0
       /\ (strcmp(board_name, "Z97 Extreme4") = 0
           \/ strcmp(board_name, "Z97 Extreme6") = 0
           \/ strcmp(board_name, "X99 Extreme4/3.1") = 0)
    THEN BitAnd(cr2a, 64) # 0
    ELSE FALSE

(***************************************************************************)
(* nct6775_probe.  Inputs: the platform data, the start of the I/O         *)
(* resource, and in the record in: the attempt at which the region becomes *)
(* free, whether the allocation and the attribute creation succeed, the    *)
(* DMI strings, and the value found in the uninitialised local hwmon_dev   *)
(* (0 when it is no error pointer, the negative errno otherwise).          *)
(***************************************************************************)
ProbeResult(m, ret, data, sysfs, region) ==
    [m |-> m, ret |-> ret, data |-> data, sysfs |-> sysfs, region |-> region]

\* mutant: the cached status is not taken from the GPIO data byte
nct6775_probe_sio_nostatus(m, d, in) ==
    Let(superio_inb(m, CR2A), LAMBDA cr2a :
    Let(ProbeHaveHddsaver(d.kind, in.board_vendor, in.board_name, cr2a.val),
        LAMBDA have :
    Let(IF have
        THEN superio_inb(superio_select(cr2a.m, NCT6775_LD_GPIO_DATA),
                         NCT6775_REG_CR_GPIO1_DATA)
        ELSE [val |-> 0, m |-> cr2a.m], LAMBDA tmp :
    ProbeResult([superio_exit(tmp.m) EXCEPT
                    !.tr = Append(@, Call("sysfs_create_group", in.sysfsOk))],
                IF in.sysfsOk THEN in.hwmon_dev ELSE 0 - EINVAL,
                [d EXCEPT !.have_hddsaver = have],
                in.sysfsOk, TRUE))))

\* the part of nct6775_probe inside the superio_enter/superio_exit bracket
\* and the creation of the attribute group; d is the Device State so far
nct6775_probe_sio(m, d, in) ==
    Let(superio_inb(m, CR2A), LAMBDA cr2a :
    Let(ProbeHaveHddsaver(d.kind, in.board_vendor, in.board_name, cr2a.val),
        LAMBDA have :
    Let(IF have
        THEN superio_inb(superio_select(cr2a.m, NCT6775_LD_GPIO_DATA),
                         NCT6775_REG_CR_GPIO1_DATA)
        ELSE [val |-> 0, m |-> cr2a.m], LAMBDA tmp :
    ProbeResult([superio_exit(tmp.m) EXCEPT
                    !.tr = Append(@, Call("sysfs_create_group", in.sysfsOk))],
                IF in.sysfsOk THEN in.hwmon_dev ELSE 0 - EINVAL,
                [d EXCEPT !.have_hddsaver = have,
                          !.hddsaver_status = have /\ BitAnd(tmp.val, 1) # 0],
                in.sysfsOk, TRUE))))

\* the Device State after the assignments that follow devm_kzalloc
ProbeData(sio_data, resStart) ==
    [NoData EXCEPT !.alloc = TRUE, !.kind = sio_data.kind,
                   !.sioreg = sio_data.sioreg, !.addr = resStart,
                   !.bank = BANK_UNKNOWN]

nct6775_probe(m0, sio_data, resStart, in) ==
    Let(ProbeRegionLoop(0, in.freeAt, m0.tr), LAMBDA loop :
    IF ~loop.region
    THEN ProbeResult([m0 EXCEPT !.tr = loop.tr], 0 - EBUSY, NoData, FALSE, FALSE)
    ELSE
    Let([m0 EXCEPT !.tr = Append(loop.tr, Call("devm_kzalloc", in.kzallocOk))],
        LAMBDA mb :
    IF ~in.kzallocOk
    THEN ProbeResult(mb, 0 - ENOMEM, NoData, FALSE, TRUE)
    ELSE IF sio_data.kind # "nct6791"
    THEN ProbeResult(mb, 0 - ENODEV, ProbeData(sio_data, resStart), FALSE, TRUE)
    ELSE
    Let([ProbeData(sio_data, resStart) EXCEPT
            !.in_num = 15, !.REG_CONFIG = NCT6775_REG_CONFIG], LAMBDA d1 :
    Let(superio_enter(mb), LAMBDA e :
    IF e.ret # 0
    THEN ProbeResult(e.m, e.ret, d1, FALSE, TRUE)
    ELSE nct6775_probe_sio(e.m, d1, in)))))

(***************************************************************************)
(* kstrtobool (called at the top of store_hddsaver): a text is a sequence  *)
(* of one-character strings.  Only the first two characters are looked at. *)
(***************************************************************************)
kstrtobool_err(s) ==
    IF Len(s) = 0 THEN 0 - EINVAL
    ELSE IF s[1] \in {"y", "Y", "t", "T", "1", "n", "N", "f", "F", "0"} THEN 0
    ELSE IF s[1] \in {"o", "O"} /\ Len(s) >= 2 /\ s[2] \in {"n", "N", "f", "F"} THEN 0
    ELSE 0 - EINVAL

kstrtobool_val(s) ==
    IF s[1] \in {"y", "Y", "t", "T", "1"} THEN TRUE
    ELSE IF s[1] \in {"o", "O"} THEN s[2] \in {"n", "N"}
    ELSE FALSE

\* time_after(a, b): a is later than b (jiffies does not wrap in the model)
time_after(a, b) == b < a

\* the body of nct6775_update_device between mutex_lock and mutex_unlock
UpdateIsStale(d, now) ==
    time_after(now, d.last_updated + HZ + HZ \div 2) \/ ~d.valid

nct6775_update_device(d, now) ==
    IF UpdateIsStale(d, now)
    THEN [d EXCEPT !.last_updated = now, !.valid = TRUE]
    ELSE d

\* what show_hddsaver prints
show_hddsaver_text(d) == IF d.hddsaver_status THEN "On" ELSE "Off"

\* select, read and write back of the GPIO data byte with bit 0 flipped
store_hddsaver_rmw(m) ==
    Let(superio_inb(superio_select(m, NCT6775_LD_GPIO_DATA),
                    NCT6775_REG_CR_GPIO1_DATA), LAMBDA tmp :
    superio_outb(tmp.m, NCT6775_REG_CR_GPIO1_DATA, BitXor(tmp.val, 1)))

\* mutant: the branch that changes nothing returns without superio_exit
store_hddsaver_body_noexit(m, d, val) ==
    IF val # d.hddsaver_status
    THEN [m |-> store_hddsaver_rmw(m), data |-> d, pc |-> "store_commit"]
    ELSE [m |-> m, data |-> d, pc |-> "done"]

\* mutant: the read-modify-write is done without comparing with the cache
store_hddsaver_body_nocompare(m, d, val) ==
    [m |-> store_hddsaver_rmw(m), data |-> d, pc |-> "store_commit"]

\* mutant: bit 0 is set, not flipped
store_hddsaver_body_setbit(m, d, val) ==
    IF val # d.hddsaver_status
    THEN [m |-> Let(superio_inb(superio_select(m, NCT6775_LD_GPIO_DATA),
                                NCT6775_REG_CR_GPIO1_DATA), LAMBDA tmp :
                superio_outb(tmp.m, NCT6775_REG_CR_GPIO1_DATA,
                             BitOr(tmp.val, 1))),
          data |-> d, pc |-> "store_commit"]
    ELSE [m |-> superio_exit(m), data |-> d, pc |-> "done"]

\* the critical section of store_hddsaver after a successful superio_enter,
\* up to the write of the GPIO data byte: the comparison with the cache and
\* the read-modify-write; pc tells whether the assignment of the cache is
\* still to come ("store_commit") or the call is over ("done")
store_hddsaver_body(m, d, val) ==
    IF val # d.hddsaver_status
    THEN [m |-> store_hddsaver_rmw(m), data |-> d, pc |-> "store_commit"]
    ELSE [m |-> superio_exit(m), data |-> d, pc |-> "done"]

\* mutant: the cache is not assigned
store_hddsaver_commit_nocache(m, d, val) ==
    [m |-> superio_exit(m), data |-> d]

\* the rest of the critical section: data->hddsaver_status = val, then
\* superio_exit
store_hddsaver_commit(m, d, val) ==
    [m |-> superio_exit(m), data |-> [d EXCEPT !.hddsaver_status = val]]

\* mutant: a failed superio_enter returns before the cache is marked stale
hddsaver_resume_earlyreturn(m0, d) ==
    Let(superio_enter(m0), LAMBDA e :
    IF e.ret # 0
    THEN [m |-> e.m, ret |-> e.ret, data |-> [d EXCEPT !.bank = BANK_UNKNOWN]]
    ELSE
    Let(superio_inb(superio_select(e.m, NCT6775_LD_HWM), SIO_REG_ENABLE),
        LAMBDA reg :
    Let(IF reg.val # d.sio_reg_enable
        THEN superio_outb(reg.m, SIO_REG_ENABLE, d.sio_reg_enable)
        ELSE reg.m, LAMBDA m3 :
    [m |-> superio_exit(IF d.kind = "nct6791"
                        THEN nct6791_enable_io_mapping(m3) ELSE m3),
     ret |-> 0,
     data |-> [d EXCEPT !.bank = BANK_UNKNOWN, !.valid = FALSE]])))

\* hddsaver_resume between mutex_lock and mutex_unlock
hddsaver_resume(m0, d) ==
    Let(superio_enter(m0), LAMBDA e :
    IF e.ret # 0
    THEN [m |-> e.m, ret |-> e.ret,
          data |-> [d EXCEPT !.bank = BANK_UNKNOWN, !.valid = FALSE]]
    ELSE
    Let(superio_inb(superio_select(e.m, NCT6775_LD_HWM), SIO_REG_ENABLE),
        LAMBDA reg :
    Let(IF reg.val # d.sio_reg_enable
        THEN superio_outb(reg.m, SIO_REG_ENABLE, d.sio_reg_enable)
        ELSE reg.m, LAMBDA m3 :
    [m |-> superio_exit(IF d.kind = "nct6791"
                        THEN nct6791_enable_io_mapping(m3) ELSE m3),
     ret |-> 0,
     data |-> [d EXCEPT !.bank = BANK_UNKNOWN, !.valid = FALSE]])))

(***************************************************************************)
(* hddsaver_init after nct6775_find returned an address > 0.  failAt names *)
(* the kernel call that fails ("none": all succeed).  platform_device_add  *)
(* binds the driver and so calls nct6775_probe; the result of probe does   *)
(* not change what platform_device_add returns.                            *)
(***************************************************************************)
InitSteps == <<"platform_device_alloc", "platform_device_add_data",
               "acpi_check_resource_conflict", "platform_device_add_resources",
               "platform_device_add">>

\* the calls made up to and including the one that fails
RECURSIVE InitCalls(_, _)
InitCalls(i, failAt) ==
    IF i > Len(InitSteps) THEN <<>>
    ELSE IF InitSteps[i] = failAt THEN <<Call(InitSteps[i], FALSE)>>
    ELSE <<Call(InitSteps[i], TRUE)>> \o InitCalls(i + 1, failAt)

\* the labels exit_device_put, exit_device_unregister and exit_unregister
InitExitPath(failAt) ==
    CASE failAt = "platform_device_alloc" ->
           \* pdev is NULL: if (pdev) skips platform_device_unregister
           <<Call("platform_driver_unregister", TRUE)>>
      [] failAt = "acpi_check_resource_conflict" ->
           <<Call("platform_device_put", TRUE),
             Call("platform_driver_unregister", TRUE)>>
      [] OTHER ->
           <<Call("platform_device_put", TRUE),
             Call("platform_device_unregister", TRUE),
             Call("platform_driver_unregister", TRUE)>>

InitErr(failAt) ==
    CASE failAt = "platform_device_alloc" -> 0 - ENOMEM
      [] failAt = "acpi_check_resource_conflict" -> 0 - ENODEV
      [] OTHER -> 0 - ENOMEM

(***************************************************************************)
(* State.                                                                  *)
(*   hw         the chip: configuration mode, key count, index, registers  *)
(*   sioRegion  owner of the two Super-I/O ports: "free", "driver" (inside *)
(*              a superio_enter/superio_exit bracket) or "other"           *)
(*   lifecycle  position of module init and of the power-management calls  *)
(*   sio_data   the platform data filled in by nct6775_find                *)
(*   address    the value returned by nct6775_find                         *)
(*   dev        driver registration, platform device, attribute group and  *)
(*              the devm-managed I/O region; hwmEnable is the enable       *)
(*              register of the hardware monitor as activation left it     *)
(*   data       struct nct6775_data                                        *)
(*   mutex      holder of data->update_lock (0: free)                      *)
(*   th         per caller of the attribute: position, arguments, and once *)
(*              the call has returned its result, trace and the states     *)
(*              before and after its deciding step                         *)
(*   jiffies    the clock                                                  *)
(*   kres       result, trace and states before/after the last init or     *)
(*              power-management call, until its caller has consumed it    *)
(*   pair       history of two back-to-back writes of the attribute: a     *)
(*              write of a boolean v1 (stage 1) directly followed by a     *)
(*              write of v2 (stage 2), whether each acquired the bracket   *)
(*              (ok1, ok2), the GPIO data byte before (g0), between (g1)   *)
(*              and after (g2), and the cached status before the pair (s0) *)
(*              and after its last write (s2)                              *)
(*   resumed    history of two calls of hddsaver_resume with no other call *)
(*              of the driver between them: after the first (n = 1) what   *)
(*              it returned (ret) and the chip and Device State it left;   *)
(*              n = 2 once the second has run                              *)
(***************************************************************************)
VARIABLES hw, sioRegion, lifecycle, sio_data, address, dev, data, mutex, th,
          jiffies, kres, pair, resumed

vars == <<hw, sioRegion, lifecycle, sio_data, address, dev, data, mutex, th,
          jiffies, kres, pair, resumed>>

NoPair == [stage |-> 0, g0 |-> 0, g1 |-> 0, g2 |-> 0, s0 |-> FALSE,
           v1 |-> FALSE, ok1 |-> FALSE, v2 |-> FALSE, ok2 |-> FALSE, s2 |-> FALSE]

\* the pair after a write of v has returned (ok: it acquired the bracket),
\* with the GPIO data byte and the cached status before and after it
PairNext(v, ok, gBefore, gAfter, sBefore, sAfter) ==
    IF pair.stage = 1
    THEN [pair EXCEPT !.stage = 2, !.v2 = v, !.ok2 = ok, !.g2 = gAfter,
                      !.s2 = sAfter]
    ELSE [NoPair EXCEPT !.stage = 1, !.v1 = v, !.ok1 = ok, !.g0 = gBefore,
                        !.g1 = gAfter, !.s0 = sBefore, !.s2 = sAfter]

\* the GPIO data register of a chip
GpioData(h) == h.regs[KEY_GPIO1_DATA]

MkHw(devid, addr, en, cr28, cr2a, gpio) ==
    [cfg |-> FALSE, keys |-> 0, index |-> 0,
     regs |-> [k \in RegKeys |->
        CASE k = KEY_LDSEL -> 0
          [] k = KEY_DEVID_HI -> devid \div 256
          [] k = KEY_DEVID_LO -> devid % 256
          [] k = KEY_CR28 -> cr28
          [] k = KEY_CR2A -> cr2a
          [] k = KEY_HWM_ENABLE -> en
          [] k = KEY_HWM_ADDR_HI -> addr \div 256
          [] k = KEY_HWM_ADDR_LO -> addr % 256
          [] OTHER -> gpio]]

NoDev == [drv |-> FALSE, pdev |-> "none", id |-> 0, sysfs |-> FALSE,
          hwmRegion |-> FALSE, bound |-> FALSE, hwmEnable |-> 0]

Snap == [hw |-> hw, data |-> data, mutex |-> mutex, region |-> sioRegion,
         dev |-> dev, jiffies |-> jiffies]

NoSnap == [hw |-> MkHw(0, 0, 0, 0, 0, 0), data |-> NoData, mutex |-> 0,
           region |-> "free", dev |-> NoDev, jiffies |-> 0]

NoResumed == [n |-> 0, ret |-> 0, hw |-> MkHw(0, 0, 0, 0, 0, 0), data |-> NoData]

\* ret: what the handler returned; called/inner/idata: whether it called
\* nct6775_find or nct6775_probe, what that returned and the Device State
\* it left
NoKres == [op |-> "none", arg |-> <<>>, ret |-> 0, called |-> FALSE,
           inner |-> 0, idata |-> NoData, tr |-> <<>>, pre |-> NoSnap,
           post |-> NoSnap]

IdleThread == [pc |-> "idle", op |-> "none", buf |-> <<>>, val |-> FALSE,
               ret |-> 0, out |-> "", tr |-> <<>>, pre |-> NoSnap,
               post |-> NoSnap]

\* the machine an operation of the driver starts from
Machine(tr) == [hw |-> hw, region |-> sioRegion, tr |-> tr]

(***************************************************************************)
(* Inputs.  Device IDs: 0xc800 and 0xc807 match the mask, 0xc808, 0xb470,  *)
(* 0x4800 and the floating bus 0xffff do not.  Base addresses: 0 and 7     *)
(* align to 0.  The narrow sets are those of the specification that runs   *)
(* the attribute and the power-management calls.                           *)
(***************************************************************************)
DevIds == {51200, 51207, 51208, 46192, 18432, 65535}
BaseAddrs == {0, 7, 8, 656, 2613}
Enables == {0, 1, 128}
Cr28s == {0, 16, 53}
Cr2as == {0, 64, 191, 255}
Gpios == {0, 1, 164, 255}
Vendors == {NULL, "ASRock", "ASUSTeK"}
Boards == {NULL, "Z97 Extreme4", "Z97 Extreme6", "X99 Extreme4/3.1", "Z97 Extreme3"}

NarrowDevIds == {51200, 65535}
NarrowBaseAddrs == {656}
NarrowEnables == {0, 1}
NarrowCr28s == {53}
NarrowCr2as == {64}
NarrowGpios == {90, 165}

\* texts written to the attribute
Bufs == {<<"1">>, <<"o", "f", "f">>, <<"o", "x">>, <<>>}

\* hwmon_dev is never assigned: an error pointer (here -ENODEV) or not
HwmonDevs == {0, 0 - ENODEV}

InitCommon ==
    /\ sioRegion \in {"free", "other"}
    /\ lifecycle = "Unprobed"
    /\ sio_data = NoSioData
    /\ address = 0
    /\ dev = NoDev
    /\ data = NoData
    /\ mutex = 0
    /\ th = [t \in Threads |-> IdleThread]
    /\ jiffies = 0
    /\ kres = NoKres
    /\ pair = NoPair
    /\ resumed = NoResumed

Init ==
    /\ hw \in {MkHw(i, a, e, l, c, g) :
                 i \in NarrowDevIds, a \in NarrowBaseAddrs, e \in NarrowEnables,
                 l \in NarrowCr28s, c \in NarrowCr2as, g \in NarrowGpios}
    /\ InitCommon

\* identification reads the first four registers, probe the last two
InitWide ==
    /\ hw \in {MkHw(i, a, e, l, 64, 1) :
                 i \in DevIds, a \in BaseAddrs, e \in Enables, l \in Cr28s}
            \cup {MkHw(51200, 656, 1, 0, c, g) : c \in Cr2as, g \in Gpios}
    /\ InitCommon

(***************************************************************************)
(* A returned call keeps its result, trace and before/after states until   *)
(* its caller takes them (Return, InitReturn, PmReturn).  Taking a result  *)
(* changes nothing in the driver or the chip, so it is scheduled at once:  *)
(* nothing else runs while a result is waiting.                            *)
(***************************************************************************)
Quiet ==
    /\ \A t \in Threads : th[t].pc # "done"
    /\ lifecycle \notin {"Bound", "Suspending", "Resumed"}

(***************************************************************************)
(* Other owners of the two Super-I/O ports.                                *)
(***************************************************************************)
OtherGrab ==
    /\ UNCHANGED <<resumed, pair>>
    /\ Quiet
    /\ sioRegion = "free"
    /\ sioRegion' = "other"
    /\ UNCHANGED <<hw, lifecycle, sio_data, address, dev, data, mutex, th, jiffies, kres>>

OtherRelease ==
    /\ UNCHANGED <<resumed, pair>>
    /\ Quiet
    /\ sioRegion = "other"
    /\ sioRegion' = "free"
    /\ UNCHANGED <<hw, lifecycle, sio_data, address, dev, data, mutex, th, jiffies, kres>>

(***************************************************************************)
(* hddsaver_init, first part: platform_driver_register, nct6775_find, and  *)
(* the exit when no chip was found.                                        *)
(***************************************************************************)
InitFind ==
    /\ resumed' = NoResumed
    /\ pair' = NoPair
    /\ lifecycle = "Unprobed"
    /\ \E drvOk \in BOOLEAN :
         IF ~drvOk
         THEN /\ lifecycle' = "InitFailed"
              /\ kres' = [NoKres EXCEPT
                            !.op = "init", !.ret = 0 - ENOMEM,
                            !.tr = <<Call("platform_driver_register", FALSE)>>,
                            !.pre = Snap, !.post = Snap]
              /\ UNCHANGED <<hw, sioRegion, sio_data, address, dev>>
         ELSE \E f \in {nct6775_find(
                           Machine(<<Call("platform_driver_register", TRUE)>>),
                           SIOADDR)} :
              \E found \in {f.ret > 0} :
              /\ hw' = f.m.hw
              /\ sioRegion' = f.m.region
              /\ sio_data' = f.sio_data
              /\ address' = f.ret
              /\ dev' = [dev EXCEPT !.drv = found]
              /\ lifecycle' = IF found THEN "Activating" ELSE "InitFailed"
              /\ kres' = [NoKres EXCEPT
                            !.op = "find",
                            !.ret = IF found THEN 0 ELSE 0 - ENODEV,
                            !.called = TRUE, !.inner = f.ret,
                            !.tr = IF found THEN f.m.tr
                                   ELSE Append(f.m.tr,
                                          Call("platform_driver_unregister", TRUE)),
                            !.pre = Snap,
                            !.post = [Snap EXCEPT !.hw = f.m.hw, !.region = f.m.region,
                                                  !.dev = [dev EXCEPT !.drv = found]]]
    /\ UNCHANGED <<data, mutex, th, jiffies>>

(***************************************************************************)
(* hddsaver_init, second part (address > 0): one of the kernel calls       *)
(* fails and init leaves through its exit labels.                          *)
(***************************************************************************)
InitDeviceFail ==
    /\ resumed' = NoResumed
    /\ pair' = NoPair
    /\ lifecycle = "Activating"
    /\ \E failAt \in {InitSteps[i] : i \in 1..Len(InitSteps)} :
         /\ dev' = [dev EXCEPT !.drv = FALSE, !.id = address,
                               !.pdev = IF failAt = "platform_device_alloc"
                                        THEN "none" ELSE "dropped"]
         /\ kres' = [NoKres EXCEPT
                       !.op = "init_device", !.arg = <<failAt>>,
                       !.ret = InitErr(failAt),
                       !.tr = InitCalls(1, failAt) \o InitExitPath(failAt),
                       !.pre = Snap,
                       !.post = [Snap EXCEPT !.dev = dev']]
    /\ lifecycle' = "InitFailed"
    /\ UNCHANGED <<hw, sioRegion, sio_data, address, data, mutex, th, jiffies>>

(***************************************************************************)
(* hddsaver_init, second part: every call succeeds; platform_device_add    *)
(* runs nct6775_probe.  When probe fails the driver core releases the      *)
(* devm-managed region and Device State; the attribute group, which is not *)
(* devm-managed, stays if it was created.                                  *)
(***************************************************************************)
InitDeviceAdd ==
    /\ resumed' = NoResumed
    /\ pair' = NoPair
    /\ lifecycle = "Activating"
    /\ \E freeAt \in 1..(MAXRETRIES + 1), kzallocOk \in BOOLEAN,
          board_vendor \in Vendors, board_name \in Boards,
          sysfsOk \in BOOLEAN, hwmon_dev \in HwmonDevs :
         \E p \in {nct6775_probe(Machine(InitCalls(1, "none")), sio_data,
                                  address + IOREGION_OFFSET,
                                  [freeAt |-> freeAt, kzallocOk |-> kzallocOk,
                                   board_vendor |-> board_vendor,
                                   board_name |-> board_name,
                                   sysfsOk |-> sysfsOk, hwmon_dev |-> hwmon_dev])} :
         \E ok \in {p.ret = 0} :
         /\ hw' = p.m.hw
         /\ sioRegion' = p.m.region
         /\ data' = IF ok THEN p.data ELSE NoData
         /\ dev' = [dev EXCEPT !.pdev = "added", !.id = address,
                               !.sysfs = p.sysfs, !.hwmRegion = ok /\ p.region,
                               !.hwmEnable = p.m.hw.regs[KEY_HWM_ENABLE],
                               !.bound = ok]
         /\ lifecycle' = IF ok THEN "Bound" ELSE "Unbound"
         /\ kres' = [NoKres EXCEPT
                       !.op = "init_device", !.arg = <<board_vendor, board_name>>,
                       !.ret = 0, !.called = TRUE, !.inner = p.ret,
                       !.idata = p.data, !.tr = p.m.tr, !.pre = Snap,
                       !.post = [Snap EXCEPT !.hw = hw', !.region = sioRegion',
                                             !.data = data', !.dev = dev']]
    /\ UNCHANGED <<sio_data, address, mutex, th, jiffies>>

\* hddsaver_init has returned 0 with the driver bound
InitReturn ==
    /\ resumed' = NoResumed
    /\ pair' = NoPair
    /\ lifecycle = "Bound"
    /\ lifecycle' = "Ready"
    /\ kres' = NoKres
    /\ UNCHANGED <<hw, sioRegion, sio_data, address, dev, data, mutex, th, jiffies>>

(***************************************************************************)
(* The clock.                                                              *)
(***************************************************************************)
Tick ==
    /\ UNCHANGED resumed
    /\ pair' = NoPair
    /\ Quiet
    /\ lifecycle \in {"Ready", "Suspended"}
    /\ jiffies < MaxJiffies
    /\ jiffies' = jiffies + 1
    /\ UNCHANGED <<hw, sioRegion, lifecycle, sio_data, address, dev, data, mutex, th, kres>>

(***************************************************************************)
(* store_hddsaver, called by thread t with the text b.                     *)
(***************************************************************************)
\* kstrtobool (-EINVAL returns before the lock is taken), mutex_lock, which
\* waits until the lock is free, and superio_enter; when that fails:
\* count = ret, mutex_unlock, return
StoreCall(t, b) ==
    /\ resumed' = NoResumed
    /\ Quiet
    /\ lifecycle = "Ready"
    /\ th[t].pc = "idle"
    /\ IF kstrtobool_err(b) = 0 - EINVAL
       THEN /\ th' = [th EXCEPT ![t] =
                        [IdleThread EXCEPT !.pc = "done", !.op = "store", !.buf = b,
                                           !.ret = 0 - EINVAL, !.pre = Snap,
                                           !.post = Snap]]
            /\ UNCHANGED <<hw, sioRegion, mutex>>
       ELSE /\ mutex = 0
            /\ \E e \in {superio_enter(Machine(<<>>))} :
               /\ hw' = e.m.hw
               /\ sioRegion' = e.m.region
               /\ IF e.ret # 0
                  THEN /\ mutex' = 0
                       /\ th' = [th EXCEPT ![t] =
                                   [IdleThread EXCEPT
                                      !.pc = "done", !.op = "store", !.buf = b,
                                      !.val = kstrtobool_val(b), !.ret = e.ret,
                                      !.tr = e.m.tr, !.pre = Snap,
                                      !.post = [Snap EXCEPT !.hw = hw',
                                                            !.region = sioRegion']]]
                  ELSE /\ mutex' = t
                       /\ th' = [th EXCEPT ![t] =
                                   [IdleThread EXCEPT
                                      !.pc = "store_body", !.op = "store", !.buf = b,
                                      !.val = kstrtobool_val(b), !.tr = e.m.tr]]
    /\ pair' = IF kstrtobool_err(b) = 0 - EINVAL THEN NoPair
               ELSE IF th'[t].pc = "store_body"
               \* the write is under way: a first write is kept
               THEN (IF pair.stage = 1 THEN pair ELSE NoPair)
               ELSE PairNext(kstrtobool_val(b), FALSE, GpioData(hw), GpioData(hw),
                             data.hddsaver_status, data.hddsaver_status)
    /\ UNCHANGED <<lifecycle, sio_data, address, dev, data, jiffies, kres>>

\* the comparison and, when the value differs, the read-modify-write of the
\* GPIO data byte; when it does not: superio_exit, mutex_unlock, return count
StoreBody(t) ==
    /\ resumed' = NoResumed
    /\ Quiet
    /\ th[t].pc = "store_body"
    /\ \E r \in {store_hddsaver_body(Machine(th[t].tr), data, th[t].val)} :
       /\ hw' = r.m.hw
       /\ sioRegion' = r.m.region
       /\ data' = r.data
       /\ IF r.pc = "done"
          THEN /\ mutex' = 0
               /\ th' = [th EXCEPT
                           ![t].pc = "done", ![t].ret = Len(th[t].buf),
                           ![t].tr = r.m.tr, ![t].pre = Snap,
                           ![t].post = [Snap EXCEPT !.hw = hw', !.region = sioRegion',
                                                    !.data = data', !.mutex = 0]]
               /\ pair' = PairNext(th[t].val, TRUE, GpioData(hw), GpioData(hw'),
                                   data.hddsaver_status, data'.hddsaver_status)
          ELSE /\ mutex' = mutex
               /\ th' = [th EXCEPT ![t].pc = r.pc, ![t].tr = r.m.tr,
                                   ![t].pre = Snap]
               /\ pair' = pair
    /\ UNCHANGED <<lifecycle, sio_data, address, dev, jiffies, kres>>

\* data->hddsaver_status = val, superio_exit, mutex_unlock, return count
StoreCommit(t) ==
    /\ resumed' = NoResumed
    /\ Quiet
    /\ th[t].pc = "store_commit"
    /\ \E r \in {store_hddsaver_commit(Machine(th[t].tr), data, th[t].val)} :
       /\ hw' = r.m.hw
       /\ sioRegion' = r.m.region
       /\ data' = r.data
       /\ mutex' = 0
       /\ th' = [th EXCEPT ![t].pc = "done", ![t].ret = Len(th[t].buf),
                           ![t].tr = r.m.tr,
                           ![t].post = [Snap EXCEPT !.hw = hw', !.region = sioRegion',
                                                    !.data = data', !.mutex = 0]]
       /\ pair' = PairNext(th[t].val, TRUE, GpioData(th[t].pre.hw), GpioData(hw'),
                           th[t].pre.data.hddsaver_status, data'.hddsaver_status)
    /\ UNCHANGED <<lifecycle, sio_data, address, dev, jiffies, kres>>

(***************************************************************************)
(* show_hddsaver, called by thread t: nct6775_update_device under the      *)
(* lock, then the read of data->hddsaver_status after the lock is dropped. *)
(***************************************************************************)
ShowUpdate(t) ==
    /\ resumed' = NoResumed
    /\ pair' = NoPair
    /\ Quiet
    /\ lifecycle = "Ready"
    /\ th[t].pc = "idle"
    /\ mutex = 0
    /\ data' = nct6775_update_device(data, jiffies)
    /\ th' = [th EXCEPT ![t] =
                [IdleThread EXCEPT !.pc = "show_read", !.op = "show",
                    !.buf = IF UpdateIsStale(data, jiffies)
                            THEN <<"stale">> ELSE <<"fresh">>]]
    /\ UNCHANGED <<hw, sioRegion, lifecycle, sio_data, address, dev, mutex, jiffies, kres>>

ShowRead(t) ==
    /\ resumed' = NoResumed
    /\ pair' = NoPair
    /\ Quiet
    /\ th[t].pc = "show_read"
    /\ th' = [th EXCEPT ![t].pc = "done", ![t].pre = Snap,
                        ![t].out = show_hddsaver_text(data),
                        \* sprintf(buf, "%s\n", ...) returns 3 or 4
                        ![t].ret = IF data.hddsaver_status THEN 3 ELSE 4,
                        ![t].post = Snap]
    /\ UNCHANGED <<hw, sioRegion, lifecycle, sio_data, address, dev, data, mutex, jiffies, kres>>

\* the caller has taken the result of its call
Return(t) ==
    /\ resumed' = NoResumed
    /\ th[t].pc = "done"
    /\ th' = [th EXCEPT ![t] = IdleThread]
    /\ pair' = IF pair.stage = 1 THEN pair ELSE NoPair
    /\ UNCHANGED <<hw, sioRegion, lifecycle, sio_data, address, dev, data, mutex, jiffies, kres>>

(***************************************************************************)
(* Power management.  The host calls suspend and resume with user space    *)
(* frozen: no call of the attribute is in flight.                          *)
(***************************************************************************)
NoCallInFlight == \A t \in Threads : th[t].pc = "idle"

\* hddsaver_suspend: nct6775_update_device, then an empty critical section
Suspend ==
    /\ resumed' = NoResumed
    /\ pair' = NoPair
    /\ lifecycle = "Ready"
    /\ NoCallInFlight
    /\ mutex = 0
    /\ data' = nct6775_update_device(data, jiffies)
    /\ lifecycle' = "Suspending"
    /\ kres' = [NoKres EXCEPT !.op = "suspend", !.ret = 0, !.pre = Snap,
                              !.post = [Snap EXCEPT !.data = data']]
    /\ UNCHANGED <<hw, sioRegion, sio_data, address, dev, mutex, th, jiffies>>

\* while suspended the chip may come back with the firmware's values in the
\* registers that hddsaver_resume re-asserts
FirmwareReset ==
    /\ resumed' = NoResumed
    /\ pair' = NoPair
    /\ lifecycle = "Suspended"
    /\ \E e \in NarrowEnables, l \in NarrowCr28s :
         /\ hw' = [hw EXCEPT !.regs[KEY_HWM_ENABLE] = e, !.regs[KEY_CR28] = l]
         /\ hw' # hw
    /\ UNCHANGED <<sioRegion, lifecycle, sio_data, address, dev, data, mutex, th, jiffies, kres>>

\* hddsaver_resume, called after a suspend or, by a power-management core
\* that repeats the callback, directly after a resume
Resume ==
    /\ pair' = NoPair
    /\ \/ lifecycle = "Suspended"
       \/ lifecycle = "Ready" /\ resumed.n = 1 /\ NoCallInFlight
    /\ mutex = 0
    /\ \E r \in {hddsaver_resume(Machine(<<>>), data)} :
       /\ resumed' = IF resumed.n = 1
                     THEN [resumed EXCEPT !.n = 2]
                     ELSE [n |-> 1, ret |-> r.ret, hw |-> r.m.hw, data |-> r.data]
       /\ hw' = r.m.hw
       /\ sioRegion' = r.m.region
       /\ data' = r.data
       /\ kres' = [NoKres EXCEPT !.op = "resume", !.ret = r.ret, !.tr = r.m.tr,
                                 !.pre = Snap,
                                 !.post = [Snap EXCEPT !.hw = hw', !.region = sioRegion',
                                                       !.data = data']]
    /\ lifecycle' = "Resumed"
    /\ UNCHANGED <<sio_data, address, dev, mutex, th, jiffies>>

\* the callback has returned to the power-management core
PmReturn ==
    /\ resumed' = IF resumed.n = 2 THEN NoResumed ELSE resumed
    /\ pair' = NoPair
    /\ lifecycle \in {"Suspending", "Resumed"}
    /\ lifecycle' = IF lifecycle = "Suspending" THEN "Suspended" ELSE "Ready"
    /\ kres' = NoKres
    /\ UNCHANGED <<hw, sioRegion, sio_data, address, dev, data, mutex, th, jiffies>>

(***************************************************************************)
(* Specifications.  Spec runs the whole driver from the narrow hardware    *)
(* inputs; SpecDiscovery runs module initialisation (identification and    *)
(* probe) from the wide ones.                                              *)
(***************************************************************************)
NextDiscovery ==
    \/ OtherGrab
    \/ OtherRelease
    \/ InitFind
    \/ InitDeviceFail
    \/ InitDeviceAdd

Next ==
    \/ OtherGrab
    \/ OtherRelease
    \/ InitFind
    \/ InitDeviceFail
    \/ InitDeviceAdd
    \/ InitReturn
    \/ Tick
    \/ \E t \in Threads, b \in Bufs : StoreCall(t, b)
    \/ \E t \in Threads : StoreBody(t)
    \/ \E t \in Threads : StoreCommit(t)
    \/ \E t \in Threads : ShowUpdate(t)
    \/ \E t \in Threads : ShowRead(t)
    \/ \E t \in Threads : Return(t)
    \/ Suspend
    \/ FirmwareReset
    \/ Resume
    \/ PmReturn

Spec == Init /\ [][Next]_vars

SpecDiscovery == InitWide /\ [][NextDiscovery]_vars

(***************************************************************************)
(* Reading traces and results.                                             *)
(***************************************************************************)
EnterOk(e) == e.k = "request_muxed_region" /\ e.eff = "ok"
EnterFail(e) == e.k = "request_muxed_region" /\ e.eff = "fail"
Exit(e) == e.k = "release_region"
PortAccess(e) == e.k \in {"outb", "inb"}
\* an access the chip decodes as a register access: an index write, a data
\* write or a data read in configuration mode
RegAccess(e) == PortAccess(e) /\ e.eff \in {"index", "write", "read"}
RegWrite(e) == e.k = "outb" /\ e.eff = "write"
RegWriteTo(e, ld, reg) ==
    RegWrite(e) /\ e.reg = reg /\ (reg < 48 \/ e.ld = ld)
KeyByte(e) == e.k = "outb" /\ e.eff \in {"key", "lock", "latch", "ignored"}

Some(tr, P(_)) == \E i \in 1..Len(tr) : P(tr[i])
None(tr, P(_)) == \A i \in 1..Len(tr) : ~P(tr[i])
Count(tr, P(_)) == Cardinality({i \in 1..Len(tr) : P(tr[i])})

\* every successful enter is closed by one exit, no exit comes without one,
\* and the trace ends outside the bracket
RECURSIVE Balanced(_, _)
Balanced(tr, open) ==
    IF tr = <<>> THEN ~open
    ELSE LET e == Head(tr) IN
         IF EnterOk(e) THEN ~open /\ Balanced(Tail(tr), TRUE)
         ELSE IF EnterFail(e) THEN ~open /\ Balanced(Tail(tr), FALSE)
         ELSE IF Exit(e) THEN open /\ Balanced(Tail(tr), FALSE)
         ELSE Balanced(Tail(tr), open)

\* the returned calls whose results are waiting
StoreDone(t) == th[t].pc = "done" /\ th[t].op = "store"
ShowDone(t) == th[t].pc = "done" /\ th[t].op = "show"
FindDone == kres.op = "find" /\ kres.called
ProbeDone == kres.op = "init_device" /\ kres.called
ResumeDone == kres.op = "resume"

(***************************************************************************)
(* C1  Bracket pairing: in every operation that opens the Super-I/O        *)
(* bracket (nct6775_find, nct6775_probe, store_hddsaver, hddsaver_resume)  *)
(* each successful enter is followed by exactly one exit before the        *)
(* operation returns, a failed enter by none, and the two ports are not    *)
(* left reserved by the driver.                                            *)
(***************************************************************************)
C1_BracketPairing ==
    /\ \A t \in Threads :
         StoreDone(t) =>
             /\ Balanced(th[t].tr, FALSE)
             /\ Some(th[t].tr, EnterOk) => th[t].post.region = "free"
    /\ (FindDone \/ ProbeDone \/ ResumeDone) =>
         Balanced(kres.tr, FALSE) /\ kres.post.region # "driver"

\* a write that changed the GPIO byte has returned: it entered and exited
C1_Witness ==
    \E t \in Threads :
        /\ StoreDone(t)
        /\ Some(th[t].tr, EnterOk)
        /\ Count(th[t].tr, Exit) = 1
        /\ GpioData(th[t].post.hw) # GpioData(th[t].pre.hw)

(***************************************************************************)
(* C2  Without the HDD Saver capability (have_hddsaver false) no write of  *)
(* the attribute writes the GPIO data register, and the cached status      *)
(* stays Off.                                                              *)
(***************************************************************************)
GpioWrite(e) == RegWriteTo(e, NCT6775_LD_GPIO_DATA, NCT6775_REG_CR_GPIO1_DATA)

C2_NoCapabilityNoGpioWrite ==
    \A t \in Threads :
        StoreDone(t) /\ ~th[t].pre.data.have_hddsaver =>
            /\ None(th[t].tr, GpioWrite)
            /\ GpioData(th[t].post.hw) = GpioData(th[t].pre.hw)
            /\ ~th[t].post.data.hddsaver_status

(***************************************************************************)
(* C3  A write whose value equals the cached status.  As claimed: it       *)
(* succeeds without any port access or bracket acquisition.  As amended:   *)
(* the bracket is still acquired first, so the write either fails with     *)
(* -EBUSY without any port access, or succeeds having issued only the key  *)
(* bytes of enter and exit; in both cases no register is accessed and the  *)
(* registers and Device State (last_updated, bank, status) are unchanged.  *)
(***************************************************************************)
NoopStoreDone(t) ==
    /\ StoreDone(t)
    /\ kstrtobool_err(th[t].buf) = 0
    /\ th[t].val = th[t].pre.data.hddsaver_status

TrueThenFalse ==
    pair.stage = 2 /\ pair.v1 /\ pair.ok1 /\ ~pair.v2 /\ pair.ok2

C4_RoundTripRestores ==
    TrueThenFalse =>
        /\ pair.g2 = pair.g0
        /\ pair.g1 \div 2 = pair.g0 \div 2

C4_RoundTripFromOff ==
    /\ TrueThenFalse =>
        /\ ~pair.s0 => pair.g1 = BitXor(pair.g0, 1) /\ pair.g2 = pair.g0
        /\ pair.s0 => pair.g1 = pair.g0 /\ pair.g2 = BitXor(pair.g0, 1)
        /\ pair.g1 \div 2 = pair.g0 \div 2
        /\ pair.g2 \div 2 = pair.g0 \div 2
    /\ pair.stage = 1 /\ pair.v1 /\ pair.ok1 => pair.g1 \div 2 = pair.g0 \div 2

\* a pair that started from Off has completed
C4_Witness == TrueThenFalse /\ ~pair.s0 /\ pair.g1 # pair.g0

(***************************************************************************)
(* C5  A read of the attribute on a stale cache performs a bracketed bus   *)
(* read of the GPIO data register and returns the chip's current bit 0.    *)
(***************************************************************************)
GpioRead(e) ==
    e.k = "inb" /\ e.eff = "read" /\ e.reg = NCT6775_REG_CR_GPIO1_DATA
    /\ e.ld = NCT6775_LD_GPIO_DATA

C5_StaleReadRefreshes ==
    \A t \in Threads :
        ShowDone(t) /\ th[t].buf = <<"stale">> =>
            /\ Some(th[t].tr, EnterOk)
            /\ Some(th[t].tr, GpioRead)
            /\ Some(th[t].tr, Exit)
            /\ (th[t].out = "On") = (GpioData(th[t].post.hw) % 2 = 1)

(***************************************************************************)
(* C6  Board gating: after probe, have_hddsaver is false for every board   *)
(* vendor/model pair outside the allow-list (a missing string included),   *)
(* whatever register 0x2a holds; for an allow-listed pair, once probe has  *)
(* read the register, have_hddsaver is bit 6 of it.                        *)
(***************************************************************************)
AllowListed(vendor, name) ==
    vendor = "ASRock"
    /\ name \in {"Z97 Extreme4", "Z97 Extreme6", "X99 Extreme4/3.1"}

Bit6(byte) == (byte \div 64) % 2 = 1

C6_BoardGating ==
    ProbeDone =>
        LET vendor == kres.arg[1]
            name == kres.arg[2]
            cr2a == kres.pre.hw.regs[KEY_CR2A]
        IN /\ ~AllowListed(vendor, name) => ~kres.idata.have_hddsaver
           /\ AllowListed(vendor, name) /\ Some(kres.tr, EnterOk) =>
                kres.idata.have_hddsaver = Bit6(cr2a)
           /\ kres.inner = 0 => data = kres.idata

\* probe has succeeded on a board outside the list whose register has bit 6
C6_Witness ==
    /\ ProbeDone
    /\ kres.inner = 0
    /\ ~AllowListed(kres.arg[1], kres.arg[2])
    /\ Bit6(kres.pre.hw.regs[KEY_CR2A])
    /\ ~data.have_hddsaver

(***************************************************************************)
(* C7  A write of the attribute that fails (-EINVAL: the text is no        *)
(* boolean; -EBUSY: enter failed) returns the negative error, leaves       *)
(* Device State and the chip unchanged, makes no port access and does not  *)
(* hold the update lock on return.                                         *)
(***************************************************************************)
C7_FailedWriteLeavesState ==
    \A t \in Threads :
        StoreDone(t) =>
            /\ kstrtobool_err(th[t].buf) # 0 => th[t].ret = 0 - EINVAL
            /\ Some(th[t].tr, EnterFail) => th[t].ret = 0 - EBUSY
            /\ th[t].ret < 0 =>
                 /\ kstrtobool_err(th[t].buf) # 0 \/ Some(th[t].tr, EnterFail)
                 /\ th[t].post.data = th[t].pre.data
                 /\ th[t].post.hw = th[t].pre.hw
                 /\ None(th[t].tr, PortAccess)
                 /\ th[t].post.mutex # t
                 /\ mutex # t

\* a write has failed because the ports were held by another owner
C7_Witness ==
    \E t \in Threads :
        StoreDone(t) /\ th[t].ret = 0 - EBUSY /\ Some(th[t].tr, EnterFail)

(***************************************************************************)
(* C8  Probe tries the I/O region at most 5 times.  When every attempt     *)
(* fails it returns -EBUSY after exactly 5, having allocated no Device     *)
(* State, made no port access and created no attribute; a successful       *)
(* attempt is the last one.                                                *)
(***************************************************************************)
RegionAttempt(e) == e.k = "devm_request_region"
RegionOk(e) == e.k = "devm_request_region" /\ e.eff = "ok"
Kzalloc(e) == e.k = "devm_kzalloc"
SysfsCreate(e) == e.k = "sysfs_create_group"

C8_BoundedRetry ==
    ProbeDone =>
        LET n == Count(kres.tr, RegionAttempt) IN
        /\ n \in 1..5
        /\ None(kres.tr, RegionOk) =>
             /\ n = 5
             /\ kres.inner = 0 - EBUSY
             /\ ~kres.idata.alloc
             /\ None(kres.tr, Kzalloc)
             /\ None(kres.tr, PortAccess)
             /\ None(kres.tr, EnterOk)
             /\ None(kres.tr, SysfsCreate)
             /\ ~kres.post.dev.sysfs
             /\ kres.post.hw = kres.pre.hw
        /\ Some(kres.tr, RegionOk) =>
             /\ Count(kres.tr, RegionOk) = 1
             /\ \A i, j \in 1..Len(kres.tr) :
                  RegionOk(kres.tr[i]) /\ RegionAttempt(kres.tr[j]) => j <= i

\* probe has given up after five failed attempts
C8_Witness ==
    /\ ProbeDone
    /\ Count(kres.tr, RegionAttempt) = 5
    /\ None(kres.tr, RegionOk)
    /\ kres.inner = 0 - EBUSY

(***************************************************************************)
(* C9  nct6775_find, having read a device ID whose value masked with       *)
(* 0xFFF8 is not 0xC800, returns -ENODEV and writes no register: no        *)
(* logical device is selected, the enable bit is not forced and the        *)
(* IO-space lock is not cleared.                                           *)
(***************************************************************************)
DevIdOf(h) == h.regs[KEY_DEVID_HI] * 256 + h.regs[KEY_DEVID_LO]
BaseAddrOf(h) == h.regs[KEY_HWM_ADDR_HI] * 256 + h.regs[KEY_HWM_ADDR_LO]
IdMatches(h) == DevIdOf(h) - (DevIdOf(h) % 8) = 51200

C9_UnknownIdRejected ==
    FindDone /\ Some(kres.tr, EnterOk) /\ ~IdMatches(kres.pre.hw) =>
        /\ kres.inner = 0 - ENODEV
        /\ None(kres.tr, RegWrite)
        /\ kres.post.hw.regs = kres.pre.hw.regs
        /\ lifecycle = "InitFailed"

\* an ID one past the mask (0xc808) on a chip whose enable bit is clear and
\* whose IO-space lock is set has been rejected
C9_Witness ==
    /\ FindDone
    /\ Some(kres.tr, EnterOk)
    /\ DevIdOf(kres.pre.hw) = 51208
    /\ kres.pre.hw.regs[KEY_HWM_ENABLE] % 2 = 0
    /\ (kres.pre.hw.regs[KEY_CR28] \div 16) % 2 = 1
    /\ kres.inner = 0 - ENODEV

(***************************************************************************)
(* C10  nct6775_find returns -ENODEV whenever the base-address register of *)
(* the hardware monitor aligns to 0 (raw 0..7), matching ID or not, and    *)
(* then neither forces the enable bit nor clears the IO-space lock; module *)
(* init never creates a platform device for address 0.                     *)
(***************************************************************************)
EnableWrite(e) == RegWriteTo(e, NCT6775_LD_HWM, SIO_REG_ENABLE)
LockWrite(e) == RegWriteTo(e, 0, NCT6791_REG_HM_IO_SPACE_LOCK_ENABLE)

C10_ZeroAddressRefused ==
    /\ FindDone /\ Some(kres.tr, EnterOk) /\ BaseAddrOf(kres.pre.hw) < 8 =>
         /\ kres.inner = 0 - ENODEV
         /\ None(kres.tr, EnableWrite)
         /\ None(kres.tr, LockWrite)
         /\ kres.post.hw.regs[KEY_HWM_ENABLE] = kres.pre.hw.regs[KEY_HWM_ENABLE]
         /\ kres.post.hw.regs[KEY_CR28] = kres.pre.hw.regs[KEY_CR28]
         /\ lifecycle = "InitFailed"
    /\ dev.pdev # "none" => dev.id >= 8 /\ BaseAddrOf(hw) >= 8

\* a matching chip with base-address register 7 has been refused
C10_Witness ==
    /\ FindDone
    /\ Some(kres.tr, EnterOk)
    /\ IdMatches(kres.pre.hw)
    /\ BaseAddrOf(kres.pre.hw) = 7
    /\ kres.inner = 0 - ENODEV
    /\ dev.pdev = "none"

(***************************************************************************)
(* C11  Resume twice in a row, with no other call of the driver between.   *)
(* As claimed: the second resume leaves the enable register of the         *)
(* hardware monitor, the IO-space-lock register and Device State exactly   *)
(* as the first left them, and bit 0x10 of the lock register is clear.     *)
(* As amended: this holds when the first resume acquired the bracket       *)
(* (returned 0); after a first resume that failed with -EBUSY the second   *)
(* may still write the enable register and clear the lock bit.  Device     *)
(* State is as the first resume left it in both cases.                     *)
(***************************************************************************)
SecondResumeDone == ResumeDone /\ resumed.n = 2

LockBitClear(h) == (h.regs[KEY_CR28] \div 16) % 2 = 0

C11_ResumeTwiceSameState ==
    SecondResumeDone =>
        /\ hw.regs[KEY_HWM_ENABLE] = resumed.hw.regs[KEY_HWM_ENABLE]
        /\ hw.regs[KEY_CR28] = resumed.hw.regs[KEY_CR28]
        /\ data = resumed.data
        /\ LockBitClear(hw)

C11_ResumeTwiceAfterSuccess ==
    SecondResumeDone =>
        /\ data = resumed.data
        /\ resumed.ret = 0 =>
             /\ hw.regs = resumed.hw.regs
             /\ LockBitClear(hw)
             \* it writes nothing but the logical-device select it already made
             /\ \A i \in 1..Len(kres.tr) :
                  RegWrite(kres.tr[i]) =>
                      /\ kres.tr[i].reg = SIO_REG_LDSEL
                      /\ kres.tr[i].val = resumed.hw.regs[KEY_LDSEL]

\* a second resume has run on the chip the first one had to correct
C11_Witness ==
    /\ SecondResumeDone
    /\ resumed.ret = 0
    /\ kres.ret = 0
    /\ Some(kres.tr, EnterOk)
    /\ LockBitClear(hw)

(***************************************************************************)
(* C12  When superio_enter fails during resume, resume returns -EBUSY,     *)
(* makes no port access and no exit, and still sets the bank sentinel to   *)
(* unknown, marks the cache stale and releases the update lock; the chip   *)
(* and the rest of Device State are untouched.                             *)
(***************************************************************************)
C12_ResumeBusy ==
    ResumeDone /\ Some(kres.tr, EnterFail) =>
        /\ kres.ret = 0 - EBUSY
        /\ None(kres.tr, PortAccess)
        /\ None(kres.tr, Exit)
        /\ None(kres.tr, EnterOk)
        /\ kres.post.hw = kres.pre.hw
        /\ kres.post.region = kres.pre.region
        /\ kres.post.data =
             [kres.pre.data EXCEPT !.bank = BANK_UNKNOWN, !.valid = FALSE]
        /\ data = kres.post.data
        /\ kres.post.mutex = 0
        /\ mutex = 0

\* a resume has failed on a cache that the suspend had marked valid
C12_Witness ==
    /\ ResumeDone
    /\ kres.ret = 0 - EBUSY
    /\ kres.pre.data.valid
    /\ ~data.valid

(***************************************************************************)
(* C14  After a successful resume the enable register of the hardware      *)
(* monitor holds the value it held when activation completed; a hardware   *)
(* monitor that was enabled then (bit 0 set) is enabled after resume.      *)
(***************************************************************************)
C14_ResumeRestoresEnable ==
    ResumeDone /\ kres.ret = 0 =>
        /\ kres.post.hw.regs[KEY_HWM_ENABLE] = dev.hwmEnable
        /\ dev.hwmEnable % 2 = 1 => kres.post.hw.regs[KEY_HWM_ENABLE] % 2 = 1

(***************************************************************************)
(* C17  Module init returns -ENODEV only when no matching chip is present  *)
(* or the base address is invalid; when superio_enter fails with -EBUSY in *)
(* nct6775_find, init returns that -EBUSY.                                 *)
(***************************************************************************)
C17_InitSurfacesBusy ==
    FindDone =>
        /\ kres.inner = 0 - EBUSY => kres.ret = 0 - EBUSY
        /\ kres.ret = 0 - ENODEV =>
             \/ ~IdMatches(kres.pre.hw)
             \/ BaseAddrOf(kres.pre.hw) < 8

(***************************************************************************)
(* C18  Probe is all-or-nothing: when it returns an error the attribute    *)
(* group is not left created, and when the region request, the allocation, *)
(* superio_enter and sysfs_create_group all succeed it returns 0.          *)
(***************************************************************************)
SysfsCreated(e) == e.k = "sysfs_create_group" /\ e.eff = "ok"
KzallocOk(e) == e.k = "devm_kzalloc" /\ e.eff = "ok"

C18_ProbeAllOrNothing ==
    ProbeDone =>
        /\ kres.inner # 0 => ~kres.post.dev.sysfs
        /\ /\ Some(kres.tr, RegionOk)
           /\ Some(kres.tr, KzallocOk)
           /\ Some(kres.tr, EnterOk)
           /\ Some(kres.tr, SysfsCreated)
           => kres.inner = 0

(***************************************************************************)
(* C19  On every failure path of module init the driver registration is    *)
(* unregistered once and the platform device, if allocated, is dropped     *)
(* once (never both put and unregistered); init returns a negative error.  *)
(***************************************************************************)
InitFailed == lifecycle = "InitFailed" /\ kres.op \in {"find", "init_device"}

DriverUnregister(e) == e.k = "platform_driver_unregister"
DevicePut(e) == e.k = "platform_device_put"
DeviceUnregister(e) == e.k = "platform_device_unregister"
DeviceAllocated(e) == e.k = "platform_device_alloc" /\ e.eff = "ok"

C19_InitFailureReleasesOnce ==
    InitFailed =>
        /\ kres.ret < 0
        /\ Count(kres.tr, DriverUnregister) = 1
        /\ ~kres.post.dev.drv
        /\ Count(kres.tr, DevicePut) + Count(kres.tr, DeviceUnregister)
             = IF Some(kres.tr, DeviceAllocated) THEN 1 ELSE 0

(***************************************************************************)
(* C13  At most one index/data transaction sequence is in flight: the chip *)
(* is in configuration mode only inside a bracket of the driver; the       *)
(* bracket belongs to the one writer that holds the update lock; every     *)
(* port access of an operation lies between its own enter and exit, each   *)
(* index write is followed at once by its own data access; an operation    *)
(* enters only when the ports are free, and while a writer is inside its   *)
(* bracket no step but its own changes the chip or the owner of the ports. *)
(***************************************************************************)
InCritical(t) == th[t].pc \in {"store_body", "store_commit"}

\* every port access lies inside a bracket
RECURSIVE Inside(_, _)
Inside(tr, open) ==
    IF tr = <<>> THEN TRUE
    ELSE IF EnterOk(Head(tr)) THEN Inside(Tail(tr), TRUE)
    ELSE IF Exit(Head(tr)) THEN Inside(Tail(tr), FALSE)
    ELSE IF PortAccess(Head(tr)) THEN open /\ Inside(Tail(tr), open)
    ELSE Inside(Tail(tr), open)

IndexPaired(tr) ==
    \A i \in 1..Len(tr) :
        tr[i].eff = "index" =>
            i < Len(tr) /\ PortAccess(tr[i + 1]) /\ tr[i + 1].port = 1

C13_State ==
    /\ \A t \in Threads :
         /\ InCritical(t) =>
              /\ mutex = t
              /\ sioRegion = "driver"
              /\ Inside(th[t].tr, FALSE)
              /\ IndexPaired(th[t].tr)
         /\ StoreDone(t) => Inside(th[t].tr, FALSE) /\ IndexPaired(th[t].tr)
    /\ sioRegion = "driver" => \E t \in Threads : InCritical(t)
    /\ hw.cfg => sioRegion = "driver"
    /\ (FindDone \/ ProbeDone \/ ResumeDone) =>
         /\ Inside(kres.tr, FALSE)
         /\ IndexPaired(kres.tr)
         /\ Some(kres.tr, PortAccess) => kres.pre.region = "free"

C13_Step ==
    \A t \in Threads :
        /\ th[t].pc = "idle" /\ InCritical(t)' => sioRegion = "free" /\ mutex = 0
        /\ InCritical(t) /\ (hw' # hw \/ sioRegion' # sioRegion) =>
             th'[t].pc # th[t].pc

C13_OneTransaction == []C13_State /\ [][C13_Step]_vars

\* a writer has finished its read-modify-write while another caller of the
\* attribute was in flight
C13_Witness ==
    \E t, u \in Threads :
        /\ t # u
        /\ StoreDone(t)
        /\ Some(th[t].tr, GpioWrite)
        /\ th[u].pc = "show_read"

(***************************************************************************)
(* C15  Two writers that request the same value, different from the cached *)
(* status.  As claimed: bit 0 of the GPIO data byte is flipped exactly     *)
(* once in total and the cached status ends equal to the requested value.  *)
(* As amended: this holds when at least one of the two acquires the        *)
(* bracket; when both fail with -EBUSY nothing is flipped and the cached   *)
(* status stays as it was.                                                 *)
(***************************************************************************)
SameValuePair == pair.stage = 2 /\ pair.v1 = pair.v2 /\ pair.v1 # pair.s0

Flips ==
    (IF pair.g1 # pair.g0 THEN 1 ELSE 0) + (IF pair.g2 # pair.g1 THEN 1 ELSE 0)

C15_WritersFlipOnce ==
    SameValuePair =>
        /\ Flips = 1
        /\ pair.g2 = BitXor(pair.g0, 1)
        /\ pair.s2 = pair.v1

C15_WritersFlipOnceIfEntered ==
    /\ SameValuePair /\ (pair.ok1 \/ pair.ok2) =>
         /\ Flips = 1
         /\ pair.g2 = BitXor(pair.g0, 1)
         /\ pair.s2 = pair.v1
         /\ data.hddsaver_status = pair.v1
    /\ SameValuePair /\ ~pair.ok1 /\ ~pair.ok2 =>
         /\ Flips = 0
         /\ pair.s2 = pair.s0

\* both writers acquired the bracket; the first flipped the bit
C15_Witness ==
    SameValuePair /\ pair.ok1 /\ pair.ok2 /\ pair.g1 # pair.g0

(***************************************************************************)
(* C16  A read of the attribute never returns the cached status while a    *)
(* writer is between its write of the GPIO data byte and its assignment of *)
(* the cache.                                                              *)
(***************************************************************************)
C16_ReadSerializesWithWrite ==
    \A t \in Threads :
        ShowDone(t) => \A u \in Threads : th[u].pc # "store_commit"

(***************************************************************************)
(* C20  Cache coherence: once probe has completed with have_hddsaver true, *)
(* in every state in which no writer is inside its critical section the    *)
(* cached status equals bit 0 of the GPIO data byte.                       *)
(***************************************************************************)
Bit0(byte) == byte % 2 = 1

C20_CacheCoherence ==
    /\ dev.bound
    /\ data.have_hddsaver
    /\ \A t \in Threads : ~InCritical(t)
    => data.hddsaver_status = Bit0(GpioData(hw))

\* a write that flipped the bit has returned on a board with the capability
C20_Witness ==
    /\ dev.bound
    /\ data.have_hddsaver
    /\ \E t \in Threads :
         /\ StoreDone(t)
         /\ Some(th[t].tr, GpioWrite)
         /\ th[t].post.data.hddsaver_status # th[t].pre.data.hddsaver_status
    /\ \A t \in Threads : ~InCritical(t)

=============================================================================
